---------------------------- MODULE Spec2Model ----------------------------
(***************************************************************************)
(* The execution-session protocol of web-compiler: the host page           *)
(* (docs/index.js) and the worker it drives over postMessage.              *)
(*                                                                         *)
(* Host side (docs/index.js): the DOM fields the handlers read and write,  *)
(* the global `starts`, the Monaco editor value, the console, and the      *)
(* position of the onmessage handler (blocked inside prompt() or not).     *)
(* Worker side (docs/worker.js, not part of the sources at hand): the      *)
(* execution bridge as the specification describes it.                     *)
(*                                                                         *)
(* Text that is concatenated (the output record, output chunks) is a       *)
(* sequence of characters; text that is only passed along (source text,    *)
(* prompt text, answers) is a string.                                      *)
(***************************************************************************)
EXTENDS Integers, Sequences, FiniteSets

VARIABLES
    editor,               \* window.editor: Undefined until Monaco has loaded, then its value
    outputTextarea,       \* outputTextarea.value
    runButtonDisabled,    \* runButton.disabled
    resetButtonDisabled,  \* resetButton.disabled
    runButtonText,        \* runButton.innerText
    statsP,               \* the content of the stats paragraph
    starts,               \* var starts
    console,              \* the console: [log: is an info line shown, errors: number of error lines]
    hostpc,               \* "idle": the host's event loop is free; "prompt": onmessage is blocked in prompt()
    promptText,           \* the text of the open prompt() dialog (NoPrompt when none)
    toWorker,             \* messages posted by the host, not yet taken by the worker
    toHost,               \* messages posted by the worker, not yet handled by onmessage
    bstate,               \* the bridge: "idle", "running", "waiting" (suspended on a request)
    sentChunks,           \* the text the interpreter has emitted in the bridge's current run
    requests,             \* the number of input requests of the bridge's current run
    clock,                \* performance.now(), in clock units
    promptTicks,          \* clock units spent inside prompt() since the last run was posted
    strays,               \* the number of messages a faulty worker has posted outside the protocol
    resetClean            \* history: the reset handler has run and the user has not edited the text since

hostVars == <<editor, outputTextarea, runButtonDisabled, resetButtonDisabled,
              runButtonText, statsP, starts, console, hostpc, promptText, resetClean>>
bridgeVars == <<bstate, sentChunks, requests, strays>>
vars == <<editor, outputTextarea, runButtonDisabled, resetButtonDisabled,
          runButtonText, statsP, starts, console, hostpc, promptText,
          toWorker, toHost, bstate, sentChunks, requests, clock, promptTicks, strays,
          resetClean>>

---------------------------------------------------------------------------
(* Bounds of the model *)

\* the longest text one run of the interpreter emits
MaxOutLen == 3
\* the most input requests one run of the interpreter makes
MaxRequests == 2
\* the most messages waiting on the worker-to-host side of the channel
MaxQueue == 2
\* the largest value the clock reaches
MaxClock == 3
\* clock units per hundredth of a millisecond (performance.now() is fractional)
UnitsPerHundredth == 4
\* the most messages a faulty worker posts outside the protocol
MaxStray == 1

---------------------------------------------------------------------------
(* Values *)

Undefined == "<undefined>"
\* what prompt() returns when the dialog is cancelled
Null == "<null>"
NoPrompt == "<none>"

\* the sample program the editor is created with
DefaultSource == "function fib(n) {...}"
\* editor texts: the sample, the empty text, a text the user typed
Sources == {DefaultSource, "", "print(1)"}
\* the chunks an interpreter emits
Chunks == {<<"a">>, <<"b", "c">>}
Prompts == {"Enter name:"}
\* what prompt() returns: a line of text (possibly empty), or null on cancel
PromptResults == {"", "Ada", Null}

Msg(t, d) == [type |-> t, data |-> d]

\* the stats paragraph: 'Ready', the loader element, or 'Execution time h/100 ms'
StatsReady == [kind |-> "Ready", hundredths |-> 0]
StatsLoader == [kind |-> "loader", hundredths |-> 0]
StatsTime(h) == [kind |-> "Execution time", hundredths |-> h]

\* Number.prototype.toFixed(2) of x clock units, as a number of hundredths of a
\* millisecond: the integer n with n/100 closest to x, the larger n on a tie.
toFixed2(x) == (2 * x + UnitsPerHundredth) \div (2 * UnitsPerHundredth)

\* the page as index.html gives it before any script has run
InitialStats == StatsReady
InitialRunLabel == "Run"

---------------------------------------------------------------------------
(* The initial state: the page after index.js has run, Monaco still loading *)

Init ==
    /\ editor = Undefined
    /\ outputTextarea = <<>>
    /\ runButtonDisabled = FALSE
    /\ resetButtonDisabled = FALSE
    /\ runButtonText = InitialRunLabel
    /\ statsP = InitialStats
    /\ starts = 0
    /\ console = [log |-> TRUE, errors |-> 0]
    /\ hostpc = "idle"
    /\ promptText = NoPrompt
    /\ toWorker = <<>>
    /\ toHost = <<>>
    /\ bstate = "idle"
    /\ sentChunks = <<>>
    /\ requests = 0
    /\ clock = 0
    /\ promptTicks = 0
    /\ strays = 0
    /\ resetClean = FALSE

---------------------------------------------------------------------------
(* The host: docs/index.js *)

\* the require callback: Monaco has loaded and the editor is created
EditorLoaded ==
    /\ editor = Undefined
    /\ editor' = DefaultSource
    /\ UNCHANGED <<outputTextarea, runButtonDisabled, resetButtonDisabled, runButtonText,
                   statsP, starts, console, hostpc, promptText,
                   toWorker, toHost, bridgeVars, clock, promptTicks,
                   resetClean>>

\* the user changes the text in the editor
EditSource(s) ==
    /\ editor # Undefined
    /\ hostpc = "idle"
    /\ editor # s
    /\ editor' = s
    /\ resetClean' = FALSE
    /\ UNCHANGED <<outputTextarea, runButtonDisabled, resetButtonDisabled, runButtonText,
                   statsP, starts, console, hostpc, promptText,
                   toWorker, toHost, bridgeVars, clock, promptTicks>>

\* RunClick with `resetButton.disabled = true` left out
RunClick_NoResetDisable ==
    /\ hostpc = "idle"
    /\ ~runButtonDisabled
    /\ runButtonDisabled' = TRUE
    /\ runButtonText' = "Running..."
    /\ statsP' = StatsLoader
    /\ outputTextarea' = <<>>
    /\ IF editor = Undefined
       THEN UNCHANGED <<starts, toWorker, promptTicks>>
       ELSE /\ starts' = clock
            /\ toWorker' = Append(toWorker, Msg("run", editor))
            /\ promptTicks' = 0
    /\ UNCHANGED <<resetButtonDisabled, editor, console, hostpc, promptText, toHost,
                   bridgeVars, clock,
                   resetClean>>

\* RunClick with `runButton.disabled = true` left out
RunClick_NoDisable ==
    /\ hostpc = "idle"
    /\ ~runButtonDisabled
    /\ resetButtonDisabled' = TRUE
    /\ runButtonText' = "Running..."
    /\ statsP' = StatsLoader
    /\ outputTextarea' = <<>>
    /\ IF editor = Undefined
       THEN UNCHANGED <<starts, toWorker, promptTicks>>
       ELSE /\ starts' = clock
            /\ toWorker' = Append(toWorker, Msg("run", editor))
            /\ promptTicks' = 0
    /\ UNCHANGED <<runButtonDisabled, editor, console, hostpc, promptText, toHost,
                   bridgeVars, clock,
                   resetClean>>

\* the click handler of the run button; a disabled button dispatches no click.
\* window.editor.getValue() throws while window.editor is undefined: the handler
\* ends there, after the statements before it.
RunClick ==
    /\ hostpc = "idle"
    /\ ~runButtonDisabled
    /\ runButtonDisabled' = TRUE
    /\ resetButtonDisabled' = TRUE
    /\ runButtonText' = "Running..."
    /\ statsP' = StatsLoader
    /\ outputTextarea' = <<>>
    /\ IF editor = Undefined
       THEN UNCHANGED <<starts, toWorker, promptTicks>>
       ELSE /\ starts' = clock
            /\ toWorker' = Append(toWorker, Msg("run", editor))
            /\ promptTicks' = 0
    /\ UNCHANGED <<editor, console, hostpc, promptText, toHost, bridgeVars, clock,
                   resetClean>>

\* ResetClick that also tells the worker about the reset
ResetClick_PostsReset ==
    /\ hostpc = "idle"
    /\ ~resetButtonDisabled
    /\ statsP' = StatsReady
    /\ toWorker' = Append(toWorker, Msg("reset", Null))
    /\ IF editor = Undefined
       THEN UNCHANGED <<editor, outputTextarea, console>>
       ELSE /\ editor' = ""
            /\ outputTextarea' = <<>>
            /\ console' = [log |-> FALSE, errors |-> 0]
    /\ resetClean' = TRUE
    /\ UNCHANGED <<runButtonDisabled, resetButtonDisabled, runButtonText, starts,
                   hostpc, promptText, toHost, bridgeVars, clock, promptTicks>>

\* ResetClick with `outputTextarea.value = ''` left out
ResetClick_KeepOutput ==
    /\ hostpc = "idle"
    /\ ~resetButtonDisabled
    /\ statsP' = StatsReady
    /\ IF editor = Undefined
       THEN UNCHANGED <<editor, console>>
       ELSE /\ editor' = ""
            /\ console' = [log |-> FALSE, errors |-> 0]
    /\ resetClean' = TRUE
    /\ UNCHANGED <<outputTextarea, runButtonDisabled, resetButtonDisabled, runButtonText,
                   starts, hostpc, promptText, toWorker, toHost, bridgeVars, clock,
                   promptTicks>>

\* the click handler of the reset button; window.editor.setValue throws while
\* window.editor is undefined
ResetClick ==
    /\ hostpc = "idle"
    /\ ~resetButtonDisabled
    /\ statsP' = StatsReady
    /\ IF editor = Undefined
       THEN UNCHANGED <<editor, outputTextarea, console>>
       ELSE /\ editor' = ""
            /\ outputTextarea' = <<>>
            /\ console' = [log |-> FALSE, errors |-> 0]
    /\ resetClean' = TRUE
    /\ UNCHANGED <<runButtonDisabled, resetButtonDisabled, runButtonText, starts,
                   hostpc, promptText, toWorker, toHost, bridgeVars, clock, promptTicks>>

\* HostOnOutput that takes the loader away when output arrives
HostOnOutput_ClearsLoader ==
    /\ hostpc = "idle"
    /\ toHost # <<>>
    /\ Head(toHost).type = "output"
    /\ outputTextarea' = outputTextarea \o Head(toHost).data
    /\ statsP' = StatsReady
    /\ toHost' = Tail(toHost)
    /\ UNCHANGED <<editor, runButtonDisabled, resetButtonDisabled, runButtonText,
                   starts, console, hostpc, promptText,
                   toWorker, bridgeVars, clock, promptTicks,
                   resetClean>>

\* HostOnOutput with `=` for `+=`
HostOnOutput_Replace ==
    /\ hostpc = "idle"
    /\ toHost # <<>>
    /\ Head(toHost).type = "output"
    /\ outputTextarea' = Head(toHost).data
    /\ toHost' = Tail(toHost)
    /\ UNCHANGED <<editor, runButtonDisabled, resetButtonDisabled, runButtonText,
                   statsP, starts, console, hostpc, promptText,
                   toWorker, bridgeVars, clock, promptTicks,
                   resetClean>>

\* myWorker.onmessage, message.type == "output"
HostOnOutput ==
    /\ hostpc = "idle"
    /\ toHost # <<>>
    /\ Head(toHost).type = "output"
    /\ outputTextarea' = outputTextarea \o Head(toHost).data
    /\ toHost' = Tail(toHost)
    /\ UNCHANGED <<editor, runButtonDisabled, resetButtonDisabled, runButtonText,
                   statsP, starts, console, hostpc, promptText,
                   toWorker, bridgeVars, clock, promptTicks,
                   resetClean>>

\* HostOnRunEnd with `runButton.disabled = false` left out
HostOnRunEnd_RunStaysDisabled ==
    /\ hostpc = "idle"
    /\ toHost # <<>>
    /\ Head(toHost).type = "run-end"
    /\ statsP' = StatsTime(toFixed2(clock - starts))
    /\ resetButtonDisabled' = FALSE
    /\ runButtonText' = "Run"
    /\ toHost' = Tail(toHost)
    /\ UNCHANGED <<editor, outputTextarea, runButtonDisabled, starts, console, hostpc,
                   promptText, toWorker, bridgeVars, clock, promptTicks,
                   resetClean>>

\* HostOnRunEnd with the time cut to two decimals instead of rounded
HostOnRunEnd_Truncate ==
    /\ hostpc = "idle"
    /\ toHost # <<>>
    /\ Head(toHost).type = "run-end"
    /\ statsP' = StatsTime((clock - starts) \div UnitsPerHundredth)
    /\ runButtonDisabled' = FALSE
    /\ resetButtonDisabled' = FALSE
    /\ runButtonText' = "Run"
    /\ toHost' = Tail(toHost)
    /\ UNCHANGED <<editor, outputTextarea, starts, console, hostpc, promptText,
                   toWorker, bridgeVars, clock, promptTicks,
                   resetClean>>

\* HostOnRunEnd with `resetButton.disabled = false` left out
HostOnRunEnd_ResetStaysDisabled ==
    /\ hostpc = "idle"
    /\ toHost # <<>>
    /\ Head(toHost).type = "run-end"
    /\ statsP' = StatsTime(toFixed2(clock - starts))
    /\ runButtonDisabled' = FALSE
    /\ runButtonText' = "Run"
    /\ toHost' = Tail(toHost)
    /\ UNCHANGED <<editor, outputTextarea, resetButtonDisabled, starts, console, hostpc,
                   promptText, toWorker, bridgeVars, clock, promptTicks,
                   resetClean>>

\* myWorker.onmessage, message.type == "run-end"
HostOnRunEnd ==
    /\ hostpc = "idle"
    /\ toHost # <<>>
    /\ Head(toHost).type = "run-end"
    /\ statsP' = StatsTime(toFixed2(clock - starts))
    /\ runButtonDisabled' = FALSE
    /\ resetButtonDisabled' = FALSE
    /\ runButtonText' = "Run"
    /\ toHost' = Tail(toHost)
    /\ UNCHANGED <<editor, outputTextarea, starts, console, hostpc, promptText,
                   toWorker, bridgeVars, clock, promptTicks,
                   resetClean>>

\* myWorker.onmessage, message.type == "input-request", up to the call of prompt():
\* the dialog is open and the host's event loop is blocked
HostOnInputRequest ==
    /\ hostpc = "idle"
    /\ toHost # <<>>
    /\ Head(toHost).type = "input-request"
    /\ console' = [console EXCEPT !.log = TRUE]
    /\ hostpc' = "prompt"
    /\ promptText' = Head(toHost).data
    /\ toHost' = Tail(toHost)
    /\ UNCHANGED <<editor, outputTextarea, runButtonDisabled, resetButtonDisabled,
                   runButtonText, statsP, starts, toWorker, bridgeVars, clock, promptTicks,
                   resetClean>>

\* PromptReturn posting the answer twice
PromptReturn_Twice(a) ==
    /\ hostpc = "prompt"
    /\ toWorker' = toWorker \o <<Msg("input-response", a), Msg("input-response", a)>>
    /\ hostpc' = "idle"
    /\ promptText' = NoPrompt
    /\ UNCHANGED <<editor, outputTextarea, runButtonDisabled, resetButtonDisabled,
                   runButtonText, statsP, starts, console, toHost, bridgeVars,
                   clock, promptTicks,
                   resetClean>>

\* PromptReturn posting nothing when the dialog was cancelled
PromptReturn_DropCancel(a) ==
    /\ hostpc = "prompt"
    /\ toWorker' = IF a = Null THEN toWorker ELSE Append(toWorker, Msg("input-response", a))
    /\ hostpc' = "idle"
    /\ promptText' = NoPrompt
    /\ UNCHANGED <<editor, outputTextarea, runButtonDisabled, resetButtonDisabled,
                   runButtonText, statsP, starts, console, toHost, bridgeVars,
                   clock, promptTicks,
                   resetClean>>

\* prompt() returns a (the text typed, or null on cancel) and the handler posts it
PromptReturn(a) ==
    /\ hostpc = "prompt"
    /\ toWorker' = Append(toWorker, Msg("input-response", a))
    /\ hostpc' = "idle"
    /\ promptText' = NoPrompt
    /\ UNCHANGED <<editor, outputTextarea, runButtonDisabled, resetButtonDisabled,
                   runButtonText, statsP, starts, console, toHost, bridgeVars,
                   clock, promptTicks,
                   resetClean>>

\* HostOnInvalid with the final else falling into the run-end branch's clean-up
HostOnInvalid_Enables ==
    /\ hostpc = "idle"
    /\ toHost # <<>>
    /\ Head(toHost).type \notin {"output", "run-end", "input-request"}
    /\ console' = [console EXCEPT !.errors = @ + 1]
    /\ runButtonDisabled' = FALSE
    /\ resetButtonDisabled' = FALSE
    /\ toHost' = Tail(toHost)
    /\ UNCHANGED <<editor, outputTextarea, runButtonText, statsP, starts, hostpc,
                   promptText, toWorker, bridgeVars, clock, promptTicks,
                   resetClean>>

\* myWorker.onmessage, any other message.type
HostOnInvalid ==
    /\ hostpc = "idle"
    /\ toHost # <<>>
    /\ Head(toHost).type \notin {"output", "run-end", "input-request"}
    /\ console' = [console EXCEPT !.errors = @ + 1]
    /\ toHost' = Tail(toHost)
    /\ UNCHANGED <<editor, outputTextarea, runButtonDisabled, resetButtonDisabled,
                   runButtonText, statsP, starts, hostpc, promptText,
                   toWorker, bridgeVars, clock, promptTicks,
                   resetClean>>

\* time passes
Tick ==
    /\ clock < MaxClock
    /\ clock' = clock + 1
    /\ promptTicks' = IF hostpc = "prompt" THEN promptTicks + 1 ELSE promptTicks
    /\ UNCHANGED <<hostVars, toWorker, toHost, bridgeVars>>

---------------------------------------------------------------------------
(* The execution bridge: docs/worker.js, as the specification describes it *)

\* onRun(sourceText): the interpreter is started on the source text
BridgeOnRun ==
    /\ bstate = "idle"
    /\ toWorker # <<>>
    /\ Head(toWorker).type = "run"
    /\ bstate' = "running"
    /\ sentChunks' = <<>>
    /\ requests' = 0
    /\ toWorker' = Tail(toWorker)
    /\ UNCHANGED <<hostVars, toHost, clock, promptTicks, strays>>

\* the interpreter's emit(text): an output message
BridgeEmit(chunk) ==
    /\ bstate = "running"
    /\ Len(toHost) < MaxQueue
    /\ Len(sentChunks) + Len(chunk) <= MaxOutLen
    /\ toHost' = Append(toHost, Msg("output", chunk))
    /\ sentChunks' = sentChunks \o chunk
    /\ UNCHANGED <<hostVars, toWorker, bstate, requests, clock, promptTicks, strays>>

\* the interpreter's request(prompt): an input-request message; the interpreter is
\* suspended until the answer arrives
BridgeRequest(p) ==
    /\ bstate = "running"
    /\ Len(toHost) < MaxQueue
    /\ requests < MaxRequests
    /\ toHost' = Append(toHost, Msg("input-request", p))
    /\ bstate' = "waiting"
    /\ requests' = requests + 1
    /\ UNCHANGED <<hostVars, toWorker, sentChunks, clock, promptTicks, strays>>

\* onInputResponse(answer): resumes the suspended interpreter; a protocol error,
\* the message dropped, when no request is pending
BridgeOnInputResponse ==
    /\ toWorker # <<>>
    /\ Head(toWorker).type = "input-response"
    /\ bstate' = IF bstate = "waiting" THEN "running" ELSE bstate
    /\ toWorker' = Tail(toWorker)
    /\ UNCHANGED <<hostVars, toHost, sentChunks, requests, clock, promptTicks, strays>>

\* the interpreter's terminate(): the run-end message
BridgeTerminate ==
    /\ bstate = "running"
    /\ Len(toHost) < MaxQueue
    /\ toHost' = Append(toHost, Msg("run-end", Null))
    /\ bstate' = "idle"
    /\ UNCHANGED <<hostVars, toWorker, sentChunks, requests, clock, promptTicks, strays>>

---------------------------------------------------------------------------
(* The specifications *)

HostNext ==
    \/ EditorLoaded
    \/ \E s \in Sources : EditSource(s)
    \/ RunClick
    \/ ResetClick
    \/ HostOnOutput
    \/ HostOnRunEnd
    \/ HostOnInputRequest
    \/ \E a \in PromptResults : PromptReturn(a)

BridgeNext ==
    \/ BridgeOnRun
    \/ \E c \in Chunks : BridgeEmit(c)
    \/ \E p \in Prompts : BridgeRequest(p)
    \/ BridgeOnInputResponse
    \/ BridgeTerminate

Next == HostNext \/ BridgeNext \/ Tick

\* the host with a bridge that keeps to the protocol
Spec == Init /\ [][Next]_vars

\* the same, with the scheduling the platform gives: the host's event loop delivers
\* every posted message, the worker takes every message posted to it, the user
\* dismisses an open prompt() dialog (the page accepts nothing else meanwhile), and
\* the interpreter, which emits and requests only finitely often, terminates
FairSpec ==
    /\ Spec
    /\ WF_vars(HostOnOutput \/ HostOnRunEnd \/ HostOnInputRequest)
    /\ WF_vars(\E a \in PromptResults : PromptReturn(a))
    /\ WF_vars(BridgeOnRun \/ BridgeOnInputResponse)
    /\ WF_vars(BridgeTerminate)

---------------------------------------------------------------------------
(* A worker that breaks the protocol *)

StrayMessages ==
    {Msg("output", c) : c \in Chunks}
        \cup {Msg("input-request", p) : p \in Prompts}
        \cup {Msg("run-end", Null), Msg("bogus", Null)}

\* the worker posts m whatever the state of the session
BridgeStray(m) ==
    /\ Len(toHost) < MaxQueue
    /\ strays < MaxStray
    /\ toHost' = Append(toHost, m)
    /\ strays' = strays + 1
    /\ UNCHANGED <<hostVars, toWorker, bstate, sentChunks, requests, clock, promptTicks>>

NextFaulty ==
    \/ Next
    \/ HostOnInvalid
    \/ \E m \in StrayMessages : BridgeStray(m)

\* the host with a worker that may post any message at any time
SpecFaulty == Init /\ [][NextFaulty]_vars

---------------------------------------------------------------------------
(* The session as the host and the channel show it *)

CountType(q, t) == Cardinality({i \in 1..Len(q) : q[i].type = t})

\* runs posted whose run-end the host has not handled: the run message is on its
\* way, or the bridge is interpreting, or the run-end is on its way
RunsOutstanding ==
    CountType(toWorker, "run") + (IF bstate # "idle" THEN 1 ELSE 0)
        + CountType(toHost, "run-end")

\* input requests the host has not answered yet: waiting in the channel, or shown
\* in the open prompt() dialog
RequestsOpen ==
    CountType(toHost, "input-request") + (IF hostpc = "prompt" THEN 1 ELSE 0)

ResponsesInFlight == CountType(toWorker, "input-response")

\* the host handles the message at the head of toHost
Handled(types) ==
    /\ hostpc = "idle"
    /\ toHost # <<>>
    /\ Head(toHost).type \in types
    /\ toHost' = Tail(toHost)

\* the host posts a message of type t
Posted(t) ==
    /\ Len(toWorker') = Len(toWorker) + 1
    /\ toWorker'[Len(toWorker')].type = t

\* run-end has been handled and nothing has been started or reset since
Completed ==
    /\ statsP.kind = "Execution time"
    /\ ~runButtonDisabled
    /\ ~resetButtonDisabled

\* the steps the host takes by itself: no message from the worker is handled
HostOnlyStep ==
    \/ EditorLoaded
    \/ \E s \in Sources : EditSource(s)
    \/ RunClick
    \/ ResetClick
    \/ \E a \in PromptResults : PromptReturn(a)

---------------------------------------------------------------------------
(* C1 *)

\* C1: when the run-end of a run has been handled, the output record is the
\* concatenation, in send order, of the chunks the bridge sent in that run: nothing
\* of an earlier run, no chunk lost, duplicated or reordered.
C1_OutputIsConcatenation ==
    statsP.kind = "Execution time" => outputTextarea = sentChunks

\* a run, posted after the clock had advanced, has ended after two chunks, "a"
\* then "bc", and both have been handled
C1_Witness ==
    /\ statsP.kind = "Execution time"
    /\ outputTextarea = <<"a", "b", "c">>
    /\ toHost = <<>>
    /\ starts > 0

---------------------------------------------------------------------------
(* C2 *)

\* C2: at most one run is outstanding, and while one is the run button is
\* disabled, so no run message is posted before the run-end has been handled;
\* a run message is posted only from a state with the run button enabled.
C2_OneRunAtATime ==
    /\ RunsOutstanding <= 1
    /\ RunsOutstanding = 1 => runButtonDisabled

\* a second run message is on its way, after the first run ended with some output
C2_Witness ==
    /\ CountType(toWorker, "run") = 1
    /\ sentChunks # <<>>
    /\ runButtonDisabled

---------------------------------------------------------------------------
(* C3 *)

\* C3: while the bridge is suspended on a request, exactly one of these holds: the
\* request is unanswered (on its way or in the open dialog), or its one answer is on
\* its way; while the bridge is not suspended (it may emit, request again or
\* terminate) there is no unanswered request and no answer on its way.
C3_OneResponsePerRequest ==
    RequestsOpen + ResponsesInFlight = (IF bstate = "waiting" THEN 1 ELSE 0)

\* the second request of a run is shown in the dialog, the first one answered
C3_Witness ==
    /\ requests = 2
    /\ hostpc = "prompt"
    /\ ResponsesInFlight = 0

---------------------------------------------------------------------------
(* C4 *)

\* C4: an input-request that has reached the host (waiting in the channel or shown
\* in the dialog) leads to an input-response on its way to the bridge, whatever
\* prompt() returns, and a suspended bridge is resumed.
C4_RequestLeadsToResponse ==
    /\ (RequestsOpen > 0) ~> (ResponsesInFlight > 0)
    /\ (bstate = "waiting") ~> (bstate = "running")

\* the dialog was cancelled: an input-response carrying null is on its way
C4_Witness ==
    /\ toWorker # <<>>
    /\ Head(toWorker).type = "input-response"
    /\ Head(toWorker).data = Null
    /\ bstate = "waiting"

---------------------------------------------------------------------------
(* C5 *)

\* C5: an output, input-request or run-end message handled while no run is in
\* progress for the host (the controls are enabled: Idle or Completed) is discarded:
\* output record, stats, controls, run label and start timestamp are unchanged, no
\* dialog opens and nothing is posted to the bridge.
C5_OutOfStateDiscarded ==
    [][(~runButtonDisabled /\ Handled({"output", "input-request", "run-end"}))
          => UNCHANGED <<outputTextarea, statsP, runButtonDisabled, resetButtonDisabled,
                         runButtonText, starts, hostpc, promptText, toWorker>>]_vars

---------------------------------------------------------------------------
(* C6 *)

\* C6: in every state with a run outstanding and the controls disabled, a step of
\* the host alone re-enables the run control.
C6_HostPathBack ==
    (runButtonDisabled /\ RunsOutstanding > 0)
        => ENABLED (HostOnlyStep /\ ~runButtonDisabled')

\* what the code does instead: no step of the host alone enables a disabled control,
\* so no sequence of such steps does
C6_HostAloneKeepsDisabled ==
    [][HostOnlyStep =>
          /\ runButtonDisabled => runButtonDisabled'
          /\ resetButtonDisabled => resetButtonDisabled']_vars

---------------------------------------------------------------------------
(* C7 *)

\* C7: handling a message of an unrecognized type records one error line and
\* changes nothing else of the host, posts nothing, and leaves the event loop free
\* for the next message.
C7_InvalidOnlyDiagnosed ==
    [][(toHost # <<>> /\ Head(toHost).type \notin {"output", "input-request", "run-end"}
            /\ toHost' = Tail(toHost))
          => /\ console'.errors = console.errors + 1
             /\ console'.log = console.log
             /\ hostpc' = "idle"
             /\ UNCHANGED <<editor, outputTextarea, statsP, runButtonDisabled,
                            resetButtonDisabled, runButtonText, starts, promptText,
                            toWorker>>]_vars

\* an unrecognized message was handled while a run was in progress
C7_Witness ==
    /\ console.errors = 1
    /\ runButtonDisabled
    /\ bstate = "running"
    /\ toHost = <<>>

---------------------------------------------------------------------------
(* C8 *)

\* the host as it is before anything was done to it: the editor not yet loaded, or
\* holding the sample program
HostFresh ==
    /\ editor \in {Undefined, DefaultSource}
    /\ outputTextarea = <<>>
    /\ statsP = InitialStats
    /\ ~runButtonDisabled
    /\ ~resetButtonDisabled
    /\ runButtonText = InitialRunLabel
    /\ hostpc = "idle"
    /\ promptText = NoPrompt

\* C8 as claimed: after reset() the host is in the state of a fresh host (the start
\* timestamp, which a run overwrites before it is read, left aside).
C8_ResetIsFresh == [][ResetClick => HostFresh']_vars

\* C8 as amended: after reset() the output record is empty, no prompt is pending,
\* the stats display reads 'Ready', both controls are enabled and labelled as at the
\* start, nothing is posted; but the editor, once loaded, is empty, not the sample.
C8_ResetState ==
    [][ResetClick =>
          /\ outputTextarea' = <<>>
          /\ statsP' = StatsReady
          /\ hostpc' = "idle" /\ promptText' = NoPrompt
          /\ ~runButtonDisabled' /\ ~resetButtonDisabled'
          /\ runButtonText' = InitialRunLabel
          /\ editor' = (IF editor = Undefined THEN Undefined ELSE "")
          /\ UNCHANGED <<starts, toWorker, toHost>>]_vars

\* reset after a run that produced output: the record is empty, the editor too
C8_Witness ==
    /\ statsP = StatsReady
    /\ editor = ""
    /\ outputTextarea = <<>>
    /\ sentChunks # <<>>
    /\ starts > 0

---------------------------------------------------------------------------
(* C9 *)

\* C9 as claimed: the time shown when run-end is handled is the clock at that
\* moment minus the clock recorded when the run was posted.
C9_ElapsedExact ==
    [][Handled({"run-end"}) =>
          statsP'.hundredths * UnitsPerHundredth = clock - starts]_vars

\* C9 as amended: the run's start is the clock when the run is posted; the time
\* shown is that difference rounded to the nearest hundredth of a millisecond (up on
\* a tie), so at most half a hundredth below the time that passed; the time spent
\* in prompt() is part of it.
C9_ElapsedRounded ==
    /\ [][Posted("run") => starts' = clock]_vars
    /\ [][Handled({"run-end"}) =>
             LET e == clock - starts
                 h == statsP'.hundredths
             IN  /\ statsP'.kind = "Execution time"
                 /\ 2 * UnitsPerHundredth * h - 2 * e <= UnitsPerHundredth
                 /\ 2 * e - 2 * UnitsPerHundredth * h < UnitsPerHundredth
                 /\ e >= promptTicks]_vars

\* a run has ended whose time, more than nothing, was all spent in prompt()
C9_Witness ==
    /\ statsP.kind = "Execution time"
    /\ statsP.hundredths > 0
    /\ promptTicks = clock - starts
    /\ promptTicks >= 2

---------------------------------------------------------------------------
(* C10 *)

\* C10: a run that has been posted leads to Completed: its run-end handled, the
\* time shown, both controls enabled.
C10_RunCompletes ==
    (RunsOutstanding > 0) ~> (Completed /\ RunsOutstanding = 0)

\* a run with an answered request has completed
C10_Witness ==
    /\ Completed
    /\ RunsOutstanding = 0
    /\ requests > 0
    /\ ENABLED RunClick
    /\ ENABLED ResetClick

---------------------------------------------------------------------------
(* C11 *)

\* C11: reset() posts nothing, takes nothing from the channel, and leaves the
\* bridge (its state, the interpreter's output so far and request count) as it is,
\* also when the worker is still interpreting.
C11_ResetHostOnly ==
    [][ResetClick => UNCHANGED <<toWorker, toHost, bstate, sentChunks, requests>>]_vars

\* reset has been clicked after a run was posted that the bridge has not ended
\* (a stray run-end had enabled the controls): the bridge interprets on
C11_Witness ==
    /\ statsP = StatsReady
    /\ editor = ""
    /\ bstate = "running"
    /\ sentChunks # <<>>

---------------------------------------------------------------------------
(* C12 *)

\* what start() is to do: the output record empty, the clock recorded, the controls
\* disabled, and one run message carrying the editor's text added to the channel
StartEffect ==
    /\ outputTextarea' = <<>>
    /\ starts' = clock
    /\ runButtonDisabled' /\ resetButtonDisabled'
    /\ toWorker' = Append(toWorker, Msg("run", editor))
    /\ editor \in Sources

\* C12: a click on the enabled run button (Idle or Completed) empties the output
\* record, records the start timestamp, disables the controls and posts exactly one
\* run message whose payload is the editor's source text at that moment.
C12_StartPostsRun == [][RunClick => StartEffect]_vars

\* what the code does: the same, once the editor has been created
C12_StartWhenLoaded == [][(RunClick /\ editor # Undefined) => StartEffect]_vars

---------------------------------------------------------------------------
(* C13 *)

\* C13: while a run is outstanding (posted, its run-end not yet handled: Running or
\* AwaitingInput) the reset button is disabled and the reset handler cannot run, so
\* no reset clears the output record of a run in progress.
C13_NoResetDuringRun ==
    RunsOutstanding > 0 => (resetButtonDisabled /\ ~ENABLED ResetClick)

\* a run in progress, all its output in the record, reset disabled
C13_Witness ==
    /\ RunsOutstanding = 1
    /\ bstate = "running"
    /\ Len(outputTextarea) = MaxOutLen
    /\ resetButtonDisabled

---------------------------------------------------------------------------
(* C14 *)

\* C14: handling an output message appends its chunk to the output record and
\* changes nothing else of the host: controls, run label, stats, start timestamp,
\* editor, console and dialog are as before, and nothing is posted.
C14_OutputOnlyAppends ==
    [][Handled({"output"}) =>
          /\ outputTextarea' = outputTextarea \o Head(toHost).data
          /\ UNCHANGED <<runButtonDisabled, resetButtonDisabled, runButtonText, statsP,
                         starts, editor, console, hostpc, promptText, toWorker>>]_vars

\* two chunks, "bc" then "a", have been handled in a run still in progress
C14_Witness ==
    /\ outputTextarea = <<"b", "c", "a">>
    /\ statsP = StatsLoader
    /\ runButtonDisabled
    /\ toHost = <<>>

---------------------------------------------------------------------------
(* C15 *)

\* C15: the run button and the reset button are disabled together and enabled
\* together: both are disabled while a run is outstanding, and both are enabled
\* whenever no start has been made since the page loaded, the last run-end or the
\* last reset (the stats paragraph shows the loader exactly from a start on).
C15_ControlsTogether ==
    /\ runButtonDisabled = resetButtonDisabled
    /\ RunsOutstanding > 0 => runButtonDisabled
    /\ statsP # StatsLoader => ~runButtonDisabled

\* AwaitingInput: the dialog is open in a run, both controls disabled
C15_Witness ==
    /\ hostpc = "prompt"
    /\ promptText \in Prompts
    /\ runButtonDisabled
    /\ resetButtonDisabled
    /\ RunsOutstanding = 1

---------------------------------------------------------------------------
(* C16 *)

\* C16: reset() leaves the editor empty, so a start made after a reset with no
\* edit in between (the editor there to be read) posts a run message whose source
\* text is the empty string.
C16_StartAfterResetSendsEmpty ==
    [][(RunClick /\ resetClean /\ editor # Undefined)
          => toWorker' = Append(toWorker, Msg("run", ""))]_vars

\* what the code does: a reset made once the editor has been created empties it,
\* and from then on, until the user edits the text, every run message carries the
\* empty string
C16_ResetWhenLoaded ==
    /\ [][(ResetClick /\ editor # Undefined) => editor' = ""]_vars
    /\ [][(RunClick /\ resetClean /\ editor = "")
             => toWorker' = Append(toWorker, Msg("run", ""))]_vars
    /\ [][(editor = "" /\ resetClean /\ resetClean') => editor' = ""]_vars

=============================================================================
